---- MODULE Spec2Model ----
(***************************************************************************)
(* Model of create-product-variants.tsx: the variant generator             *)
(* (generateVariants / generateCombinations) and the CreateProductVariants *)
(* component's reactive wiring (useState, useMemo, the form.watch emission *)
(* effect and the reconciliation effect).                                  *)
(*                                                                         *)
(* JavaScript strings are TLA+ strings; arrays are sequences (1-based);    *)
(* the form's `variants` record is a function from variant ids to entries. *)
(***************************************************************************)
EXTENDS Integers, Sequences, FiniteSets, TLC

VARIABLES
    optionGroups,     \* useState value (line 99)
    memoKey,          \* the useMemo dependency of the last computation (line 111)
    variants,         \* the memoised generateVariants(optionGroups) (line 111)
    formVariants,     \* the form's values.variants record (lines 101-107)
    subscribed,       \* whether a form.watch subscription is active (lines 114, 141)
    subVariants,      \* `variants` as captured by the active watch callback
    subOptionGroups,  \* `optionGroups` as captured by the active watch callback
    lastEmit,         \* the last payload handed to onChange (line 138)
    emitted,          \* whether the step that led here called onChange
    pc,               \* position of the component in React's render/effect cycle
    pending,          \* the effects of the committed render still to run, in order
    lastStep,         \* the step that produced the current state
    nOps              \* number of user operations so far

vars == <<optionGroups, memoKey, variants, formVariants, subscribed, subVariants,
          subOptionGroups, lastEmit, emitted, pc, pending, lastStep, nOps>>

(***************************************************************************)
(* Bounds and input domains                                                *)
(***************************************************************************)
MaxGroups == 3
MaxOps == 4

\* group names the editor can deliver; "" is the not-yet-named group
Names == {"", "Color", "Size"}

\* option values the editor can deliver; one id holds the separator that
\* generateCombinations joins ids with
ValueObjs ==
    { [value |-> "Red",  id |-> "a"],
      [value |-> "Blue", id |-> "a-a"] }

SeqsUpTo(S, n) == UNION { [1..k -> S] : k \in 0..n }

\* value lists whose ids are pairwise different (ids unique within a group)
ValueLists ==
    { s \in SeqsUpTo(ValueObjs, Cardinality(ValueObjs)) :
        \A i, j \in DOMAIN s : i # j => s[i].id # s[j].id }

Groups == [name : Names, values : ValueLists]

GroupLists == SeqsUpTo(Groups, MaxGroups)

(***************************************************************************)
(* generateVariants (lines 360-427)                                        *)
(***************************************************************************)
\* Array.prototype.join
RECURSIVE Join(_, _)
Join(strs, sep) ==
    IF strs = <<>> THEN ""
    ELSE IF Len(strs) = 1 THEN strs[1]
    ELSE strs[1] \o sep \o Join(Tail(strs), sep)

\* currentCombination.map(c => c.id) and currentCombination.map(c => c.value)
OptIds(combination) == [i \in DOMAIN combination |-> combination[i].id]
OptValues(combination) == [i \in DOMAIN combination |-> combination[i].value]

\* the literal returned at lines 362-373 and 377-388
DefaultVariant ==
    [ id      |-> "default",
      name    |-> "",
      values  |-> <<>>,
      options |-> <<>>,
      enabled |-> TRUE,
      sku     |-> "",
      price   |-> "",
      stock   |-> "" ]

\* CombinationVariant with a fault: the id is built from the value labels
CombinationVariantIdFromValues(currentCombination) ==
    [ id      |-> Join(OptValues(currentCombination), "-"),
      name    |-> Join(OptValues(currentCombination), " "),
      values  |-> OptValues(currentCombination),
      options |-> currentCombination,
      enabled |-> TRUE,
      sku     |-> "",
      price   |-> "",
      stock   |-> "" ]

\* the literal returned at lines 396-407
CombinationVariant(currentCombination) ==
    [ id      |-> Join(OptIds(currentCombination), "-"),
      name    |-> Join(OptValues(currentCombination), " "),
      values  |-> OptValues(currentCombination),
      options |-> currentCombination,
      enabled |-> TRUE,
      sku     |-> "",
      price   |-> "",
      stock   |-> "" ]

\* IsValidGroup with a fault: the name is not looked at
IsValidGroupNoName(group) == Len(group.values) > 0

\* the filter predicate of line 375 (a non-empty string and a non-empty array
\* are the truthy ones)
IsValidGroup(group) == group.name # "" /\ Len(group.values) > 0

validGroupsOf(groups) == SelectSeq(groups, IsValidGroup)

\* line 416
NewOption(currentGroup, optionValue) ==
    [name |-> currentGroup.name, value |-> optionValue.value, id |-> optionValue.id]

RECURSIVE generateCombinations(_, _, _)
RECURSIVE forEachValue(_, _, _, _)
RECURSIVE forEachValueReversed(_, _, _, _)

\* forEachValue with a fault: the sub-results are put in front
forEachValueReversed(groups, currentIndex, currentCombination, k) ==
    IF k > Len(groups[currentIndex].values) THEN <<>>
    ELSE forEachValueReversed(groups, currentIndex, currentCombination, k + 1)
         \o generateCombinations(groups, currentIndex + 1,
                Append(currentCombination,
                       NewOption(groups[currentIndex], groups[currentIndex].values[k])))

\* the forEach of lines 413-421, from the k-th value on: results.push(...subResults)
forEachValue(groups, currentIndex, currentCombination, k) ==
    IF k > Len(groups[currentIndex].values) THEN <<>>
    ELSE generateCombinations(groups, currentIndex + 1,
                Append(currentCombination,
                       NewOption(groups[currentIndex], groups[currentIndex].values[k])))
         \o forEachValue(groups, currentIndex, currentCombination, k + 1)

\* lines 390-424; currentIndex is 1-based here, so the end is Len + 1
generateCombinations(groups, currentIndex, currentCombination) ==
    IF currentIndex = Len(groups) + 1
    THEN << CombinationVariant(currentCombination) >>
    ELSE forEachValue(groups, currentIndex, currentCombination, 1)

\* generateVariants with a fault: the second guard (lines 376-388) is missing
generateVariantsNoSecondGuard(groups) ==
    IF Len(groups) = 0 THEN << DefaultVariant >>
    ELSE generateCombinations(validGroupsOf(groups), 1, <<>>)

generateVariants(groups) ==
    IF Len(groups) = 0 THEN << DefaultVariant >>
    ELSE IF Len(validGroupsOf(groups)) = 0 THEN << DefaultVariant >>
    ELSE generateCombinations(validGroupsOf(groups), 1, <<>>)

(***************************************************************************)
(* The generator on its own: one call on an arbitrary input                *)
(***************************************************************************)
NoEmit == [optionGroups |-> <<>>, variants |-> <<>>]
EmptyRecord == [id \in {} |-> TRUE]

InitGen ==
    /\ optionGroups \in GroupLists
    /\ memoKey = ""
    /\ variants = <<>>
    /\ formVariants = EmptyRecord
    /\ subscribed = FALSE
    /\ subVariants = <<>>
    /\ subOptionGroups = <<>>
    /\ lastEmit = NoEmit
    /\ emitted = FALSE
    /\ pc = "call"
    /\ pending = <<>>
    /\ lastStep = "init"
    /\ nOps = 0

CallGenerateVariants ==
    /\ pc = "call"
    /\ variants' = generateVariants(optionGroups)
    /\ pc' = "returned"
    /\ lastStep' = "generateVariants"
    /\ UNCHANGED <<optionGroups, memoKey, formVariants, subscribed, subVariants,
                   subOptionGroups, lastEmit, emitted, pending, nOps>>

NextGen == CallGenerateVariants

SpecGen == InitGen /\ [][NextGen]_vars

(***************************************************************************)
(* The component CreateProductVariants (lines 88-160)                      *)
(***************************************************************************)
\* JSON.stringify of the option groups, the useMemo dependency (line 111)
JSONString(str) == "\"" \o str \o "\""

JSONValue(v) ==
    "{\"value\":" \o JSONString(v.value) \o ",\"id\":" \o JSONString(v.id) \o "}"

JSONGroup(g) ==
    "{\"name\":" \o JSONString(g.name) \o ",\"values\":["
        \o Join([i \in DOMAIN g.values |-> JSONValue(g.values[i])], ",") \o "]}"

JSONStringify(groups) == "[" \o Join([i \in DOMAIN groups |-> JSONGroup(groups[i])], ",") \o "]"

\* the entry written at lines 150-155
DefaultEntry == [enabled |-> TRUE, sku |-> "", price |-> "", stock |-> ""]

\* the strings the form's inputs deliver
Skus == {"", "X"}
Prices == {"10", "-1"}
Stocks == {"3", "-2"}

\* Number(val) and parseInt(val, 10) on the strings above; nan marks NaN
Num(n) == [nan |-> FALSE, num |-> n]
NaN == [nan |-> TRUE, num |-> 0]

NumberOf(val) ==
    CASE val = ""   -> Num(0)
      [] val = "10" -> Num(10)
      [] val = "-1" -> Num(-1)
      [] val = "3"  -> Num(3)
      [] val = "-2" -> Num(-2)
      [] OTHER      -> NaN

parseInt(val) ==
    CASE val = "10" -> Num(10)
      [] val = "-1" -> Num(-1)
      [] val = "3"  -> Num(3)
      [] val = "-2" -> Num(-2)
      [] OTHER      -> NaN

\* variantSchema (lines 65-74): a comparison with NaN is false
variantSchemaOk(entry) ==
    /\ Len(entry.sku) >= 1
    /\ ~NumberOf(entry.price).nan /\ NumberOf(entry.price).num >= 0
    /\ ~NumberOf(entry.stock).nan
    /\ ~parseInt(entry.stock).nan /\ parseInt(entry.stock).num >= 0

\* the option groups the editor hands to setOptionGroups (line 168)
Color == [name |-> "Color",
          values |-> << [value |-> "Red", id |-> "a"], [value |-> "Blue", id |-> "b"] >>]
Colour == [name |-> "Colour",
           values |-> << [value |-> "Red", id |-> "a"], [value |-> "Blue", id |-> "b"] >>]
Size == [name |-> "Size", values |-> << [value |-> "S", id |-> "s"] >>]
Unnamed == [name |-> "", values |-> << [value |-> "M", id |-> "m"] >>]
Dashed == [name |-> "Size",
           values |-> << [value |-> "S", id |-> "b-s"], [value |-> "L", id |-> "s"] >>]

EditorInputs ==
    { <<>>,
      << Unnamed >>,
      << Color >>,
      << Colour >>,
      << Color, Size >>,
      << Size, Color >>,
      << Color, Unnamed, Size >>,
      << [name |-> "Color", values |-> << [value |-> "Red", id |-> "a"],
                                          [value |-> "Pink", id |-> "a-b"] >>],
         Dashed >> }

\* the order in which React runs the effects of a render: declaration order
\* (the watch effect at line 113, the reconciliation effect at line 144);
\* EffectOrderSwapped is the order the two would have if declared the other way
EffectOrderSwapped == << "reconcile", "watch" >>
EffectOrder == << "watch", "reconcile" >>

IsWatch(e) == e = "watch"

\* the row pushed at lines 122-128; every entry of the record carries the four
\* fields, so the ?? fallbacks are not taken
Row(formVariant, variant) ==
    [ enabled |-> formVariant.enabled,
      sku     |-> formVariant.sku,
      price   |-> formVariant.price,
      stock   |-> formVariant.stock,
      options |-> variant.options ]

\* ActiveVariants with a fault: the fields are read from the generated variant
ActiveVariantsFromGenerated(vs, formValues) ==
    LET Present(v) == v.id \in DOMAIN formValues
        present == SelectSeq(vs, Present)
    IN  [i \in DOMAIN present |-> Row(present[i], present[i])]

\* ActiveVariants with a fault: entries that fail the schema, or are disabled,
\* are left out
ActiveVariantsValidOnly(vs, formValues) ==
    LET Passes(v) == /\ v.id \in DOMAIN formValues
                     /\ variantSchemaOk(formValues[v.id])
                     /\ formValues[v.id].enabled
        present == SelectSeq(vs, Passes)
    IN  [i \in DOMAIN present |-> Row(formValues[present[i].id], present[i])]

\* the forEach of lines 118-131
ActiveVariants(vs, formValues) ==
    LET Present(v) == v.id \in DOMAIN formValues
        present == SelectSeq(vs, Present)
    IN  [i \in DOMAIN present |-> Row(formValues[present[i].id], present[i])]

\* WatchCallback with a fault: only the valid groups are handed on
WatchCallbackValidGroupsOnly(formValues) ==
    [ optionGroups |-> validGroupsOf(subOptionGroups),
      variants     |-> ActiveVariants(subVariants, formValues) ]

\* the payload of lines 133-138, built by the subscribed callback from the
\* variants and optionGroups of the render that subscribed it
WatchCallback(formValues) ==
    [ optionGroups |-> subOptionGroups,
      variants     |-> ActiveVariants(subVariants, formValues) ]

\* form.watch's subscribers are called on every change of the form's values;
\* onChange is called only while a subscription is active
Notify(formValues) ==
    IF subscribed
    THEN /\ lastEmit' = WatchCallback(formValues)
         /\ emitted' = TRUE
    ELSE /\ lastEmit' = lastEmit
         /\ emitted' = FALSE

\* updatedVariantsOf with a fault: every generated id is reset
updatedVariantsOverwrite(currentVariants, vs) ==
    LET ids == { vs[i].id : i \in DOMAIN vs }
    IN  [id \in DOMAIN currentVariants \cup ids |->
            IF id \in ids THEN DefaultEntry ELSE currentVariants[id]]

\* updatedVariantsOf with a fault: new ids start disabled
updatedVariantsDisabled(currentVariants, vs) ==
    LET ids == { vs[i].id : i \in DOMAIN vs }
    IN  [id \in DOMAIN currentVariants \cup ids |->
            IF id \in DOMAIN currentVariants THEN currentVariants[id]
            ELSE [DefaultEntry EXCEPT !.enabled = FALSE]]

\* updatedVariantsOf with a fault: entries of ids that are not generated any
\* more are dropped
updatedVariantsPruned(currentVariants, vs) ==
    LET ids == { vs[i].id : i \in DOMAIN vs }
    IN  [id \in ids |->
            IF id \in DOMAIN currentVariants THEN currentVariants[id]
            ELSE DefaultEntry]

\* lines 145-157: a copy of the record plus a default entry per missing id
updatedVariantsOf(currentVariants, vs) ==
    LET ids == { vs[i].id : i \in DOMAIN vs }
    IN  [id \in DOMAIN currentVariants \cup ids |->
            IF id \in DOMAIN currentVariants THEN currentVariants[id]
            ELSE DefaultEntry]

\* the first render: useState([]), useForm's defaultValues, useMemo; both
\* effects are still to run
Init ==
    /\ optionGroups = <<>>
    /\ memoKey = JSONStringify(<<>>)
    /\ variants = generateVariants(<<>>)
    /\ formVariants = EmptyRecord
    /\ subscribed = FALSE
    /\ subVariants = <<>>
    /\ subOptionGroups = <<>>
    /\ lastEmit = NoEmit
    /\ emitted = FALSE
    /\ pc = "commit"
    /\ pending = EffectOrder
    /\ lastStep = "mount"
    /\ nOps = 0

\* OptionGroupsEditor's onChange (line 168): setOptionGroups schedules a render
SetOptionGroups(groups) ==
    /\ pc = "idle"
    /\ nOps < MaxOps
    /\ optionGroups' = groups
    /\ pc' = "render"
    /\ emitted' = FALSE
    /\ lastStep' = "setOptionGroups"
    /\ nOps' = nOps + 1
    /\ UNCHANGED <<memoKey, variants, formVariants, subscribed, subVariants,
                   subOptionGroups, lastEmit, pending>>

\* the render after setOptionGroups: useMemo (line 111) recomputes when its
\* dependency differs; the watch effect's dependencies hold optionGroups, the
\* reconciliation effect's only variants
Render ==
    /\ pc = "render"
    /\ IF JSONStringify(optionGroups) # memoKey
       THEN /\ variants' = generateVariants(optionGroups)
            /\ memoKey' = JSONStringify(optionGroups)
            /\ pending' = EffectOrder
       ELSE /\ UNCHANGED <<variants, memoKey>>
            /\ pending' = SelectSeq(EffectOrder, IsWatch)
    /\ pc' = "commit"
    /\ emitted' = FALSE
    /\ lastStep' = "render"
    /\ UNCHANGED <<optionGroups, formVariants, subscribed, subVariants,
                   subOptionGroups, lastEmit, nOps>>

AfterEffect == IF Len(pending) = 1 THEN "idle" ELSE "commit"

\* the effect of lines 113-142: the previous subscription is dropped and the
\* callback of this render is subscribed
WatchEffect ==
    /\ pc = "commit"
    /\ pending # <<>> /\ Head(pending) = "watch"
    /\ subscribed' = TRUE
    /\ subVariants' = variants
    /\ subOptionGroups' = optionGroups
    /\ pending' = Tail(pending)
    /\ pc' = AfterEffect
    /\ emitted' = FALSE
    /\ lastStep' = "watchEffect"
    /\ UNCHANGED <<optionGroups, memoKey, variants, formVariants, lastEmit, nOps>>

\* the effect of lines 144-160: setValue stores the record and notifies
ReconcileEffect ==
    /\ pc = "commit"
    /\ pending # <<>> /\ Head(pending) = "reconcile"
    /\ formVariants' = updatedVariantsOf(formVariants, variants)
    /\ Notify(formVariants')
    /\ pending' = Tail(pending)
    /\ pc' = AfterEffect
    /\ lastStep' = "reconcileEffect"
    /\ UNCHANGED <<optionGroups, memoKey, variants, subscribed, subVariants,
                   subOptionGroups, nOps>>

\* the values a field of a rendered row can be given; the checkbox is rendered
\* only when there is more than one row (lines 248-267)
FieldInputs ==
    (IF Len(variants) = 1 THEN {} ELSE { <<"enabled", b>> : b \in BOOLEAN })
    \cup { <<"sku", s>> : s \in Skus }
    \cup { <<"price", s>> : s \in Prices }
    \cup { <<"stock", s>> : s \in Stocks }

\* field.onChange of a rendered row (lines 246-346): the form stores the value
\* and notifies. User events are handled when the effects of the last render
\* have run (pc = "idle"): the event loop is single-threaded and React
\* flushes a render's effects before it processes the next update.
EditField(i, input) ==
    /\ pc = "idle"
    /\ nOps < MaxOps
    /\ i \in DOMAIN variants
    /\ variants[i].id \in DOMAIN formVariants
    /\ input \in FieldInputs
    /\ formVariants' =
         [formVariants EXCEPT ![variants[i].id] =
            CASE input[1] = "enabled" -> [@ EXCEPT !.enabled = input[2]]
              [] input[1] = "sku"     -> [@ EXCEPT !.sku = input[2]]
              [] input[1] = "price"   -> [@ EXCEPT !.price = input[2]]
              [] input[1] = "stock"   -> [@ EXCEPT !.stock = input[2]]]
    /\ Notify(formVariants')
    /\ lastStep' = "editField"
    /\ nOps' = nOps + 1
    /\ UNCHANGED <<optionGroups, memoKey, variants, subscribed, subVariants,
                   subOptionGroups, pc, pending>>

Next ==
    \/ \E groups \in EditorInputs : SetOptionGroups(groups)
    \/ Render
    \/ WatchEffect
    \/ ReconcileEffect
    \/ \E i \in DOMAIN variants, input \in FieldInputs : EditField(i, input)

Spec == Init /\ [][Next]_vars

(***************************************************************************)
(* Reference notions the generator's claims are stated with                *)
(***************************************************************************)
RECURSIVE ProdFrom(_, _)
\* n_i * ... * n_k for the sizes n of the groups gs
ProdFrom(gs, i) == IF i > Len(gs) THEN 1 ELSE Len(gs[i].values) * ProdFrom(gs, i + 1)

\* the ways of choosing one value position from each group of gs
Choices(gs) ==
    { f \in [DOMAIN gs -> 1..Cardinality(ValueObjs)] : \A i \in DOMAIN gs : f[i] <= Len(gs[i].values) }

\* the options of the combination a choice stands for
ChoiceOptions(gs, f) == [i \in DOMAIN gs |-> NewOption(gs[i], gs[i].values[f[i]])]

RECURSIVE RankFrom(_, _, _)
\* the lexicographic rank (0-based) of choice f: the first group is the most
\* significant digit
RankFrom(gs, f, i) ==
    IF i > Len(gs) THEN 0
    ELSE (f[i] - 1) * ProdFrom(gs, i + 1) + RankFrom(gs, f, i + 1)

Returned == pc = "returned"

\* validity as the data model states it: a non-empty name and at least one value
HasNameAndValues(g) == g.name # "" /\ g.values # <<>>
ValidIn == SelectSeq(optionGroups, HasNameAndValues)

\* C1: with at least one valid group the result is exactly the Cartesian
\* product of the valid groups' value lists: n1*...*nk variants, every way of
\* choosing one value per valid group present, nothing else present, no
\* combination twice, and every option taken from a valid group.
C1_CartesianProduct ==
    (Returned /\ Len(ValidIn) > 0) =>
        /\ Len(variants) = ProdFrom(ValidIn, 1)
        /\ { variants[i].options : i \in DOMAIN variants }
             = { ChoiceOptions(ValidIn, f) : f \in Choices(ValidIn) }
        /\ \A i, j \in DOMAIN variants :
             i # j => variants[i].options # variants[j].options
        /\ \A i \in DOMAIN variants :
             /\ Len(variants[i].options) = Len(ValidIn)
             /\ \A p \in DOMAIN variants[i].options :
                  /\ variants[i].options[p].name = ValidIn[p].name
                  /\ \E q \in DOMAIN ValidIn[p].values :
                       /\ ValidIn[p].values[q].id = variants[i].options[p].id
                       /\ ValidIn[p].values[q].value = variants[i].options[p].value

C1_Witness ==
    /\ Returned
    /\ Len(ValidIn) = 2
    /\ Len(optionGroups) = 3
    /\ \E i \in DOMAIN optionGroups : ~HasNameAndValues(optionGroups[i])
    /\ Len(variants) = 4

\* C2: for an empty list, or a list of invalid groups only, the result is the
\* single default variant; the result is never empty.
C2_DefaultVariant ==
    Returned =>
        /\ Len(variants) >= 1
        /\ Len(ValidIn) = 0 =>
             /\ Len(variants) = 1
             /\ variants[1].id = "default"
             /\ variants[1].values = <<>>
             /\ variants[1].options = <<>>
             /\ variants[1].enabled = TRUE
             /\ variants[1].sku = ""
             /\ variants[1].price = ""
             /\ variants[1].stock = ""

C2_Witness ==
    /\ Returned
    /\ Len(optionGroups) = 2
    /\ optionGroups[1].name = "" /\ Len(optionGroups[1].values) > 0
    /\ optionGroups[2].name # "" /\ Len(optionGroups[2].values) = 0
    /\ variants = << DefaultVariant >>

\* C3: the combinations come in lexicographic order of (group order, value
\* order) over the valid groups: the variant at rank r is the r-th choice, its
\* options are in valid-group order and its id is the value ids joined by '-'.
C3_LexicographicOrder ==
    (Returned /\ Len(ValidIn) > 0) =>
        \A f \in Choices(ValidIn) :
            LET r == 1 + RankFrom(ValidIn, f, 1) IN
              /\ r \in DOMAIN variants
              /\ variants[r].options = ChoiceOptions(ValidIn, f)
              /\ variants[r].id = Join([i \in DOMAIN ValidIn |-> ValidIn[i].values[f[i]].id], "-")
              /\ variants[r].values = [i \in DOMAIN ValidIn |-> ValidIn[i].values[f[i]].value]

C3_Witness ==
    /\ Returned
    /\ Len(ValidIn) = 2
    /\ Len(ValidIn[1].values) = 2
    /\ Len(ValidIn[2].values) = 1
    /\ Len(optionGroups) = 3
    /\ ~HasNameAndValues(optionGroups[2])
    /\ Len(variants) = 2
    /\ variants[1].options[1].id = "a"
    /\ variants[2].options[1].id = "a-a"
    /\ variants[1].options[2].name = optionGroups[3].name

UniqueIdsWithinGroups ==
    \A g \in DOMAIN optionGroups :
        \A i, j \in DOMAIN optionGroups[g].values :
            i # j => optionGroups[g].values[i].id # optionGroups[g].values[j].id

\* C4: when value ids are unique within each group, no two distinct
\* combinations of the result have the same id.
C4_UniqueIds ==
    (Returned /\ UniqueIdsWithinGroups) =>
        \A i, j \in DOMAIN variants :
            variants[i].options # variants[j].options => variants[i].id # variants[j].id

(***************************************************************************)
(* Properties of the component                                             *)
(***************************************************************************)
VariantIds(vs) == { vs[i].id : i \in DOMAIN vs }

Reconciled == lastStep = "reconcileEffect"

\* enabled/sku/price/stock of an emitted row
RowFields(row) ==
    [enabled |-> row.enabled, sku |-> row.sku, price |-> row.price, stock |-> row.stock]

\* the id the generator gives to the combination of an emitted row
RowId(options) ==
    IF options = <<>> THEN "default"
    ELSE Join([i \in DOMAIN options |-> options[i].id], "-")

Perms(n) == { p \in [1..n -> 1..n] : \A i, j \in 1..n : i # j => p[i] # p[j] }

\* C5: a reconciliation leaves the entry of every id that was in the record
\* and is in the freshly generated list as it was.
C5_EditsPreserved ==
    [][ lastStep' = "reconcileEffect" =>
          \A id \in DOMAIN formVariants \cap VariantIds(variants') :
              /\ id \in DOMAIN formVariants'
              /\ formVariants'[id] = formVariants[id] ]_vars

C5_Witness ==
    /\ Reconciled
    /\ nOps >= 2
    /\ \E i \in DOMAIN variants :
         /\ variants[i].id \in DOMAIN formVariants
         /\ formVariants[variants[i].id].sku = "X"

\* C6: after a reconciliation every generated id has an entry, and an id that
\* had none before has exactly { enabled: true, sku: '', price: '', stock: '' }.
C6_AllIdsInitialised ==
    [][ lastStep' = "reconcileEffect" =>
          \A i \in DOMAIN variants' :
              /\ variants'[i].id \in DOMAIN formVariants'
              /\ variants'[i].id \notin DOMAIN formVariants =>
                   formVariants'[variants'[i].id] =
                     [enabled |-> TRUE, sku |-> "", price |-> "", stock |-> ""] ]_vars

C6_Witness ==
    /\ Reconciled
    /\ nOps = 1
    /\ Len(variants) = 2
    /\ DOMAIN formVariants = {"default"} \cup VariantIds(variants)
    /\ \A id \in VariantIds(variants) :
         formVariants[id] = [enabled |-> TRUE, sku |-> "", price |-> "", stock |-> ""]

\* C7: an emitted configuration lists, in generator order, exactly the variants
\* of the latest generated list whose id has an entry in the record, each with
\* the record's enabled/sku/price/stock and the generated variant's options.
C7_EmissionMatchesRecord ==
    emitted =>
        LET present == { i \in DOMAIN variants : variants[i].id \in DOMAIN formVariants }
            rows == lastEmit.variants
        IN  /\ Len(rows) = Cardinality(present)
            /\ \A k \in DOMAIN rows :
                 LET i == CHOOSE j \in present :
                              Cardinality({ m \in present : m <= j }) = k
                     entry == formVariants[variants[i].id]
                 IN  rows[k] = [ enabled |-> entry.enabled,
                                 sku     |-> entry.sku,
                                 price   |-> entry.price,
                                 stock   |-> entry.stock,
                                 options |-> variants[i].options ]

C7_Witness ==
    /\ emitted
    /\ lastStep = "editField"
    /\ Len(lastEmit.variants) = 2
    /\ lastEmit.variants[1].sku = ""
    /\ lastEmit.variants[2].sku = "X"
    /\ DOMAIN formVariants \ VariantIds(variants) # {}

\* C8: after a change of the option groups nothing is emitted until the
\* reconciliation has run; the emission it causes comes from the callback of
\* the new render and has one row per newly generated variant; no emission
\* pairs a generated list with a record that lacks one of its ids, nor a
\* record with a list other than the latest.
C8_ReconcileBeforeEmission ==
    /\ lastStep \in {"setOptionGroups", "render", "watchEffect"} => ~emitted
    /\ Reconciled =>
         /\ emitted
         /\ lastEmit.optionGroups = optionGroups
         /\ Len(lastEmit.variants) = Len(variants)
         /\ \A i \in DOMAIN variants : lastEmit.variants[i].options = variants[i].options
    /\ emitted =>
         /\ memoKey = JSONStringify(optionGroups)
         /\ subVariants = variants
         /\ VariantIds(variants) \subseteq DOMAIN formVariants

C8_Witness ==
    /\ Reconciled
    /\ emitted
    /\ nOps = 2
    /\ Len(lastEmit.variants) = 2
    /\ Len(lastEmit.optionGroups) = 3
    /\ \A i \in DOMAIN variants : Len(variants[i].options) = 2

\* C9 as stated: the row of a combination whose value ids had an entry under
\* another order of the groups carries that entry's fields.
C9_SurvivesReordering ==
    [][ (lastStep' = "reconcileEffect" /\ emitted') =>
          \A k \in DOMAIN lastEmit'.variants :
              LET opts == lastEmit'.variants[k].options IN
              \A p \in Perms(Len(opts)) :
                  LET old == Join([i \in DOMAIN opts |-> opts[p[i]].id], "-") IN
                  ( /\ Len(opts) > 0
                    /\ old \in DOMAIN formVariants
                    /\ RowId(opts) \notin DOMAIN formVariants )
                  => RowFields(lastEmit'.variants[k]) = formVariants[old] ]_vars

\* C9 as amended: the id is the value ids joined in valid-group order; the row
\* emitted after a regeneration carries the entry the record had for that id,
\* and the default fields when the record had none.
C9_StableInGroupOrder ==
    [][ (lastStep' = "reconcileEffect" /\ emitted') =>
          /\ Len(lastEmit'.variants) = Len(variants')
          /\ \A k \in DOMAIN lastEmit'.variants :
               LET id == RowId(lastEmit'.variants[k].options) IN
                 IF id \in DOMAIN formVariants
                 THEN RowFields(lastEmit'.variants[k]) = formVariants[id]
                 ELSE RowFields(lastEmit'.variants[k]) =
                        [enabled |-> TRUE, sku |-> "", price |-> "", stock |-> ""] ]_vars

C9_Witness ==
    /\ Reconciled
    /\ emitted
    /\ Len(optionGroups) = 1
    /\ optionGroups[1].name = "Colour"
    /\ lastEmit.variants[1].sku = "X"
    /\ lastEmit.variants[1].options[1].id = "a"

\* C10: a row is emitted whatever its fields hold: an entry that fails the
\* schema (empty sku, price that is no non-negative number, stock that is no
\* non-negative integer) or is disabled has its row in the emission, with
\* those values.
C10_ValidationNeverBlocks ==
    emitted =>
        \A i \in DOMAIN variants :
            \A id \in {variants[i].id} \cap DOMAIN formVariants :
                (~variantSchemaOk(formVariants[id]) \/ ~formVariants[id].enabled) =>
                    \E k \in DOMAIN lastEmit.variants :
                        /\ lastEmit.variants[k].options = variants[i].options
                        /\ RowFields(lastEmit.variants[k]) = formVariants[id]

C10_Witness ==
    /\ emitted
    /\ \E k \in DOMAIN lastEmit.variants :
         /\ lastEmit.variants[k].enabled = FALSE
         /\ lastEmit.variants[k].sku = ""
         /\ lastEmit.variants[k].price = "-1"
         /\ lastEmit.variants[k].stock = "-2"

\* C11: the record never loses an entry: every step keeps every id of the
\* record, the entry of an id that is not in the generated list is left as it
\* is, and when a reconciliation emits a row for an id the record already
\* held, the row carries that old entry, not the defaults.
C11_RecordNeverLosesEntries ==
    [][ /\ \A id \in DOMAIN formVariants :
             /\ id \in DOMAIN formVariants'
             /\ id \notin VariantIds(variants) => formVariants'[id] = formVariants[id]
        /\ (lastStep' = "reconcileEffect" /\ emitted') =>
             /\ Len(lastEmit'.variants) = Len(variants')
             /\ \A k \in DOMAIN variants' :
                  variants'[k].id \in DOMAIN formVariants =>
                      RowFields(lastEmit'.variants[k]) = formVariants[variants'[k].id] ]_vars

\* the default row was edited, the groups then generated other ids, and the
\* groups were removed again
C11_Witness ==
    /\ Reconciled
    /\ emitted
    /\ nOps = 3
    /\ optionGroups = <<>>
    /\ DOMAIN formVariants # {"default"}
    /\ Len(lastEmit.variants) = 1
    /\ lastEmit.variants[1].options = <<>>
    /\ lastEmit.variants[1].sku = "X"

\* C12: the two halves of an emitted payload belong to the same input:
\* optionGroups is the current list as given (invalid groups included, order
\* kept), and every row has one option per valid group of that list, in group
\* order, with the name of the group and the id and value of one of its values.
C12_PayloadHalvesAgree ==
    emitted =>
        /\ lastEmit.optionGroups = optionGroups
        /\ LET valid == SelectSeq(lastEmit.optionGroups, HasNameAndValues) IN
             \A k \in DOMAIN lastEmit.variants :
                 LET opts == lastEmit.variants[k].options IN
                   /\ Len(opts) = Len(valid)
                   /\ \A p \in DOMAIN opts :
                        /\ opts[p].name = valid[p].name
                        /\ \E q \in DOMAIN valid[p].values :
                             /\ valid[p].values[q].id = opts[p].id
                             /\ valid[p].values[q].value = opts[p].value

C12_Witness ==
    /\ emitted
    /\ lastStep = "editField"
    /\ Len(lastEmit.optionGroups) = 3
    /\ lastEmit.optionGroups[2].name = ""
    /\ Len(lastEmit.variants) = 2
    /\ \A k \in DOMAIN lastEmit.variants : Len(lastEmit.variants[k].options) = 2
    /\ lastEmit.variants[2].price = "10"

====
